---- MODULE Spec2Model ----
(***************************************************************************)
(* Order creation workflow of InventoryPro.                                *)
(*                                                                         *)
(*   SpecServer    : the POST /api/orders handler (server/routes.ts) and   *)
(*                   the storage calls it awaits, run by concurrent        *)
(*                   requests; every await is a scheduling point and every *)
(*                   storage call may throw.                               *)
(*   SpecServerSeq : the same handler, one request at a time.              *)
(*   SpecOrders    : the same, for requests that may repeat an orderId and *)
(*                   differ in their prices.                               *)
(*   SpecComposer  : the OrderFormV2 component: React state, the event     *)
(*                   handlers, a render after every handler.               *)
(*   SpecNewCustomer : OrderFormV2 with its inline ClientForm (the New     *)
(*                   Customer step) and the clients table.                 *)
(*   SpecSubmission : the same, where every request sent is answered.      *)
(*   SpecClients   : the same, while other users create clients.           *)
(*   SpecStale     : the product handlers of OrderFormV2 called again      *)
(*                   before the component has rendered.                    *)
(*   SpecGate      : handleSubmit as a function of the draft.              *)
(*   SpecTotals    : a draft submitted by the form and handled by the      *)
(*                   server, one request at a time.                        *)
(*   SpecOrderId   : generateOrderId as a function of the customer id and  *)
(*                   the clock.                                            *)
(*   SpecHistory   : the ProductHistorySlider component: the audit trail   *)
(*                   its query holds, the rows it renders.                 *)
(*                                                                         *)
(* Money is exact: amounts are integers (rupees) and every derived amount  *)
(* is kept in hundredths (x100), so subtotal * (discount / 100) is         *)
(* represented by the integer subtotal * discount.                         *)
(***************************************************************************)
EXTENDS Integers, Sequences, FiniteSets, TLC

\* ---------------------------------------------------------------- bounds
NumReqs == 2
MaxLines == 2
MaxSubmits == 2
MaxCalls == 2
MaxNewClients == 1
MaxTrail == 3
MaxOtherClients == 1

\* ------------------------------------------------------------ value sets
Products == {"ADS1", "ADS2"}
Missing == "ADS9"
AdsIds == Products \cup {Missing}
OrderTypes == {"RENT", "PURCHASE"}
Reqs == 1..NumReqs
\* ids of the clients that exist before the form is opened
Clients == {1, 2}
Today == "2026-01-15"
\* product.costPrice of the available products
CostPrice == [p \in Products |-> IF p = "ADS1" THEN 1000 ELSE 500]
\* values typed into the form fields
PriceInputs == {0, 500}
DiscountInputs == {0, 10, 101}
DepositInputs == {0, 2000}
DateInputs == {"", Today}
\* values of the drafts handed to handleSubmit as a function
GatePrices == {-500, 0, 500, 1000}
GateDiscounts == {-1, 0, 10, 100, 101}
GateDeposits == {-1, 0, 2000}

\* customer ids handed to generateOrderId as a function
IdInputs == {0, 7, 42, 99999, 100000, 999999, 1000000}
\* instants the clock goes through, in UTC: [year, month, day, hour]
Instants == << [year |-> 2026, month |-> 1, day |-> 15, hour |-> 9],
               [year |-> 2026, month |-> 1, day |-> 15, hour |-> 23],
               [year |-> 2026, month |-> 1, day |-> 16, hour |-> 0],
               [year |-> 2026, month |-> 11, day |-> 4, hour |-> 8] >>

Range(s) == {s[k] : k \in 1..Len(s)}

SeqsUpTo(S, n) == UNION {[1..k -> S] : k \in 0..n}

\* orderId values of request bodies: customers 1 to 4 on 2026-01-15
OrderIdList == <<"ORD000001_20260115", "ORD000002_20260115",
                 "ORD000003_20260115", "ORD000004_20260115">>
\* price values of request bodies, as sent: p.price.toString()
BodyPrices == {<<"5", "0", "0">>, <<"1", "0", "0", "0">>}

\* req.body: products is any list of {adsId, price} over the given adsIds and prices,
\* the empty one and repeated ids included; no discount, no deposit
Requests(A, P, O) ==
    [products : SeqsUpTo([adsId : A, price : P], MaxLines), orderType : OrderTypes, orderId : O,
     discountPercentage : {0}, securityDeposit : {0}]

\* the bodies of request r when every request carries its own orderId: any adsIds,
\* unknown ones included
Bodies(r) == Requests(AdsIds, {<<"5", "0", "0">>}, {OrderIdList[r]})

\* no adsId twice in the list
NoRepeat(ps) == \A j \in 1..Len(ps), k \in 1..Len(ps) : j # k => ps[j].adsId # ps[k].adsId

\* the bodies of orders that may repeat an orderId: existing products, none twice,
\* any price
PricedBodies(r) ==
    {b \in Requests(Products, BodyPrices, {OrderIdList[1], OrderIdList[2]}) : NoRepeat(b.products)}

\* ================================================================ state
VARIABLES
    \* --- server: database tables
    productTable,       \* products: adsId -> [orderStatus, prodStatus]
    orders,             \* rows of table orders
    orderItems,         \* rows of table order_items
    productDateEvents,  \* rows appended by createProductDateEvent
    \* --- server: one handler invocation per request
    req,                \* rid -> [pc, products, orderType, orderId, i, status, message]
    statusWrites,       \* history: <<rid, adsId, field>> product writes made
    \* --- OrderFormV2: React state
    customerType,       \* "null" | "new" | "existing"
    selectedCustomer,   \* 0 (null) or the client id
    orderType,
    selectedProducts,   \* sequence of [adsId, price]
    contractDate,
    discountPercentage,
    securityDeposit,
    \* --- OrderFormV2: what the handlers of the last render captured
    renderedProducts,   \* selectedProducts as of the last render
    \* --- OrderFormV2: mutation, toasts, dialog
    mutationStatus,     \* createOrderMutation: "idle" | "pending" | "success" | "error"
    toast,              \* title of the toast raised by the last handler, or "none"
    formOpen,           \* the dialog that hosts the form is open
    submits,            \* history: number of handleSubmit calls
    posts,              \* history: number of createOrderMutation.mutate calls
    \* --- OrderFormV2: what the last handler sent, received and showed
    orderData,          \* the body it handed to fetch("/api/orders"), or NoRequest
    response,           \* the outcome of fetch("/api/orders") it received, or NoResponse
    toastDescription,   \* the description of the toast it raised, or "none"
    \* --- clients: the table behind /api/clients and the inline New Customer step
    clients,            \* rows of table clients (their ids), in the order GET returns them
    creating,           \* number of handleCustomerCreated calls awaiting the refetch
    created,            \* id of the client the last successful save of the form inserted, or 0
    \* --- the browser clock and the calls of generateOrderId as a function
    now,                \* index in Instants of the current instant
    idCalls,            \* history: [customerId, at, orderId] of every call
    \* --- ProductHistorySlider
    auditTrail,         \* history.auditTrail: the snapshots the query holds, oldest first
    expandedStates,     \* useState: the set of expanded row indexes
    timeline            \* the rows of the last render: [snapshot, changes], top row first

serverVars == <<productTable, orders, orderItems, productDateEvents, req, statusWrites>>

draftVars == <<customerType, selectedCustomer, orderType, selectedProducts, contractDate,
               discountPercentage, securityDeposit>>

stepOutputs == <<orderData, response, toastDescription>>

composerVars == <<draftVars, renderedProducts, mutationStatus, toast, formOpen, submits, posts,
                  stepOutputs>>

clockVars == <<now, idCalls>>

clientVars == <<clients, creating, created>>

historyVars == <<auditTrail, expandedStates, timeline>>

vars == <<serverVars, composerVars, clockVars, clientVars, historyVars>>

\* ============================================================= strings
\* strings are sequences of characters
Chars(n) == <<"0", "1", "2", "3", "4", "5", "6", "7", "8", "9">>[n + 1]

\* Number.prototype.toString() of an integer
RECURSIVE toString(_)
toString(n) ==
    IF n < 0 THEN <<"-">> \o toString(0 - n)
    ELSE IF n < 10 THEN <<Chars(n)>>
    ELSE toString(n \div 10) \o <<Chars(n % 10)>>

\* the value of a decimal digit
DigitOf(ch) == CHOOSE n \in 0..9 : Chars(n) = ch

\* parseFloat of the decimal notation of an integer
RECURSIVE parseFloat(_)
parseFloat(str) ==
    IF Len(str) = 0 THEN 0
    ELSE IF Head(str) = "-" THEN 0 - parseFloat(Tail(str))
    ELSE parseFloat(SubSeq(str, 1, Len(str) - 1)) * 10 + DigitOf(str[Len(str)])

\* ============================================================== server
IdleReq == [pc |-> "idle", products |-> <<>>, orderType |-> "PURCHASE", orderId |-> "none",
            discountPercentage |-> 0, securityDeposit |-> 0,
            i |-> 0, status |-> 0, message |-> "none", unavail |-> 0, dup |-> FALSE]

BaseServer ==
    /\ productTable = [p \in Products |-> [orderStatus |-> "INVENTORY", prodStatus |-> "available"]]
    /\ orders = {}
    /\ orderItems = {}
    /\ productDateEvents = {}
    /\ req = [r \in Reqs |-> IdleReq]
    /\ statusWrites = {}

\* the slider before its query has data: no snapshot, no row
InitHistory == auditTrail = <<>> /\ expandedStates = {} /\ timeline = <<>>

\* no request in flight
NoRequest == [customerId |-> 0]

\* no fetch has returned yet
NoResponse == [kind |-> "none"]

\* useState initial values of OrderFormV2, mutation idle, dialog open
InitComposer ==
    /\ customerType = "null"
    /\ selectedCustomer = 0
    /\ orderType = "PURCHASE"
    /\ selectedProducts = <<>>
    /\ contractDate = Today
    /\ discountPercentage = 0
    /\ securityDeposit = 0
    /\ renderedProducts = <<>>
    /\ mutationStatus = "idle"
    /\ orderData = NoRequest
    /\ response = NoResponse
    /\ toastDescription = "none"
    /\ toast = "none"
    /\ formOpen = TRUE
    /\ submits = 0
    /\ posts = 0

\* res.status(code).json(...) : the handler returns; its locals are dropped
Responded(rq, code, msg) ==
    [rq EXCEPT !.pc = "done", !.products = <<>>, !.orderType = "PURCHASE", !.orderId = "none",
               !.discountPercentage = 0, !.securityDeposit = 0,
               !.i = 0, !.status = code, !.message = msg]

Respond(r, code, msg) == req' = [req EXCEPT ![r] = Responded(req[r], code, msg)]

\* prodStatus written for an order type
StatusFor(t) == IF t = "RENT" THEN "leased" ELSE "sold"

\* the undefined result of a lookup that finds no row
NoProduct == [orderStatus |-> "undefined", prodStatus |-> "undefined"]

\* storage.getProductByAdsId(adsId): the row, or undefined when there is no such product
getProductByAdsId(a) == IF a \in Products THEN productTable[a] ELSE NoProduct

\* (mutation of ValidateOne: only the first product of the list is checked)
ValidateOne_FirstOnly(rq) ==
    LET prod == getProductByAdsId(rq.products[rq.i].adsId) IN
      IF rq.i = 1 /\ prod = NoProduct THEN Responded(rq, 400, "not found")
      ELSE IF rq.i = 1 /\ prod.orderStatus # "INVENTORY" THEN Responded(rq, 400, "not available")
      ELSE IF rq.i = Len(rq.products) THEN [rq EXCEPT !.pc = "createOrder"]
      ELSE [rq EXCEPT !.i = rq.i + 1]

\* one iteration of the loop "Validate all products are available" for request record rq
ValidateOne(rq) ==
    LET prod == getProductByAdsId(rq.products[rq.i].adsId) IN
      IF prod = NoProduct THEN Responded(rq, 400, "not found")
      ELSE IF prod.orderStatus # "INVENTORY" THEN Responded(rq, 400, "not available")
      ELSE IF rq.i = Len(rq.products) THEN [rq EXCEPT !.pc = "createOrder"]
      ELSE [rq EXCEPT !.i = rq.i + 1]

\* products.map(p => p.adsId)
AdsIdsOf(ps) == [k \in 1..Len(ps) |-> ps[k].adsId]

\* an orders row holds this order_id
OrderIdTaken(oid) == \E o \in orders : o.orderId = oid

\* history: position of the first product of the list that is not in INVENTORY when
\* the request arrives, 0 when every product is (or does not exist)
Unavailable(ps) ==
    LET U == {k \in 1..Len(ps) : ps[k].adsId \in Products
                                   /\ productTable[ps[k].adsId].orderStatus # "INVENTORY"}
    IN IF U = {} THEN 0 ELSE CHOOSE k \in U : \A j \in U : k <= j

\* app.post("/api/orders") entry: destructure the body, validate the products array,
\* first iteration of the availability loop (the handler runs up to its first read of
\* the products table without touching shared state)
Receive(r, In) ==
    /\ req[r].pc = "idle"
    /\ \A q \in Reqs : q < r => req[q].pc # "idle"
    /\ \E body \in In :
         LET ps == body.products
             rq == [pc |-> "validate", products |-> ps, orderType |-> body.orderType,
                    orderId |-> body.orderId, discountPercentage |-> body.discountPercentage,
                    securityDeposit |-> body.securityDeposit,
                    i |-> 1, status |-> 0, message |-> "none",
                    unavail |-> Unavailable(ps), dup |-> OrderIdTaken(body.orderId)] IN
         IF Len(ps) = 0
         THEN req' = [req EXCEPT ![r] = Responded(rq, 400, "Products array is required")]
         ELSE req' = [req EXCEPT ![r] = ValidateOne(rq)]
    /\ UNCHANGED <<productTable, orders, orderItems, productDateEvents, statusWrites>>

\* a later iteration of "Validate all products are available"
ValidateAvailable(r) ==
    /\ req[r].pc = "validate"
    /\ req' = [req EXCEPT ![r] = ValidateOne(req[r])]
    /\ UNCHANGED <<productTable, orders, orderItems, productDateEvents, statusWrites>>

\* the orders table refuses a second row with the same order_id
UniqueOrderId(oid) == ~OrderIdTaken(oid)

\* products.reduce((sum, p) => sum + parseFloat(p.price), 0)
RECURSIVE sumOfPrices(_)
sumOfPrices(ps) ==
    IF Len(ps) = 0 THEN 0
    ELSE sumOfPrices(SubSeq(ps, 1, Len(ps) - 1)) + parseFloat(ps[Len(ps)].price)

\* (mutation of orderTotals: the deposit is left out of the total)
orderTotals_NoDeposit(ps, d, dep) ==
    [quotedPrice |-> sumOfPrices(ps),
     totalPaymentReceived |-> sumOfPrices(ps) * 100 - sumOfPrices(ps) * d]

\* "Prepare order data": subtotal, discountAmount = subtotal * ((discountPercentage
\* || 0) / 100) and totalPayment = subtotal - discountAmount +
\* (parseFloat(securityDeposit) || 0); the total is in hundredths
orderTotals(ps, d, dep) ==
    [quotedPrice |-> sumOfPrices(ps),
     totalPaymentReceived |-> sumOfPrices(ps) * 100 - sumOfPrices(ps) * d
                                + parseFloat(toString(dep)) * 100]

\* a ?? b
Coalesce(a, b) == IF a \in {"undefined", "null"} THEN b ELSE a

\* insertOrder.deliveredPieces: a key neither the request body nor the handler sets
deliveredPieces == "undefined"

\* the orders row of request r: the columns createOrder inserts from the object the
\* handler passes ({...orderData, adsIds, requiredPieces, totalPaymentReceived,
\* quotedPrice})
InsertOrder(r, rq) ==
    [rid |-> r, orderId |-> rq.orderId,
     adsIds |-> AdsIdsOf(rq.products),
     orderType |-> rq.orderType,
     requiredPieces |-> Len(rq.products),
     deliveredPieces |-> Coalesce(deliveredPieces, 0),
     totalPaymentReceived |->
         orderTotals(rq.products, rq.discountPercentage, rq.securityDeposit).totalPaymentReceived,
     quotedPrice |->
         orderTotals(rq.products, rq.discountPercentage, rq.securityDeposit).quotedPrice]

\* (mutation of createOrder: the row is inserted whatever the table holds)
createOrder_AlwaysInserts(r) ==
    /\ req[r].pc = "createOrder"
    /\ orders' = orders \cup {InsertOrder(r, req[r])}
    /\ req' = [req EXCEPT ![r].pc = "createOrderItems"]
    /\ UNCHANGED <<productTable, orderItems, productDateEvents, statusWrites>>

\* storage.createOrder: BEGIN, INSERT INTO orders, COMMIT; an INSERT that fails is
\* rolled back and rethrown, and the handler's catch answers 400
createOrder(r) ==
    /\ req[r].pc = "createOrder"
    /\ IF UniqueOrderId(req[r].orderId)
       THEN /\ orders' = orders \cup {InsertOrder(r, req[r])}
            /\ req' = [req EXCEPT ![r].pc = "createOrderItems"]
       ELSE /\ Respond(r, 400, "Failed to create order")
            /\ UNCHANGED orders
    /\ UNCHANGED <<productTable, orderItems, productDateEvents, statusWrites>>

\* storage.getOrderItems(orderId): SELECT * FROM order_items WHERE order_id = $1
getOrderItems(oid) == {it \in orderItems : it.orderId = oid}

\* (mutation of createOrderItems: rentalPricePerMonth is set whatever the order type)
createOrderItems_RentalAlways(r) ==
    /\ req[r].pc = "createOrderItems"
    /\ orderItems' = orderItems \cup
         {[rid |-> r, orderId |-> req[r].orderId, line |-> k, adsId |-> req[r].products[k].adsId,
           sellingPrice |-> req[r].products[k].price,
           rentalPricePerMonth |-> req[r].products[k].price] : k \in 1..Len(req[r].products)}
    /\ req' = [req EXCEPT ![r].pc = "updateOrderStatus", ![r].i = 1]
    /\ UNCHANGED <<productTable, orders, productDateEvents, statusWrites>>

\* storage.createOrderItems: one transaction inserting one row per product
createOrderItems(r) ==
    /\ req[r].pc = "createOrderItems"
    /\ orderItems' = orderItems \cup
         {[rid |-> r, orderId |-> req[r].orderId, line |-> k, adsId |-> req[r].products[k].adsId,
           sellingPrice |-> req[r].products[k].price,
           rentalPricePerMonth |-> IF req[r].orderType = "RENT" THEN req[r].products[k].price
                                   ELSE "null"] : k \in 1..Len(req[r].products)}
    /\ req' = [req EXCEPT ![r].pc = "updateOrderStatus", ![r].i = 1]
    /\ UNCHANGED <<productTable, orders, productDateEvents, statusWrites>>

\* storage.updateProductOrderStatus(adsId, orderType)
updateProductOrderStatus(r) ==
    /\ req[r].pc = "updateOrderStatus"
    /\ LET a == req[r].products[req[r].i].adsId IN
         /\ productTable' = [productTable EXCEPT ![a].orderStatus = req[r].orderType]
         /\ statusWrites' = statusWrites \cup {<<r, a, "orderStatus">>}
    /\ req' = [req EXCEPT ![r].pc = "updateProdStatus"]
    /\ UNCHANGED <<orders, orderItems, productDateEvents>>

\* storage.updateProductProdStatus(adsId, leased | sold)
updateProductProdStatus(r) ==
    /\ req[r].pc = "updateProdStatus"
    /\ LET a == req[r].products[req[r].i].adsId IN
         /\ productTable' = [productTable EXCEPT ![a].prodStatus = StatusFor(req[r].orderType)]
         /\ statusWrites' = statusWrites \cup {<<r, a, "prodStatus">>}
    /\ req' = [req EXCEPT ![r].pc = "createEvent"]
    /\ UNCHANGED <<orders, orderItems, productDateEvents>>

\* storage.createProductDateEvent, then next adsId or res.status(201)
createProductDateEvent(r) ==
    /\ req[r].pc = "createEvent"
    /\ productDateEvents' = productDateEvents \cup
         {[rid |-> r, line |-> req[r].i, adsId |-> req[r].products[req[r].i].adsId,
           eventType |-> StatusFor(req[r].orderType)]}
    /\ IF req[r].i = Len(req[r].products)
       THEN Respond(r, 201, "created")
       ELSE req' = [req EXCEPT ![r].pc = "updateOrderStatus", ![r].i = req[r].i + 1]
    /\ UNCHANGED <<productTable, orders, orderItems, statusWrites>>

\* an awaited storage call rejects: catch (error) -> 400 "Failed to create order"
StorageThrows(r) ==
    /\ req[r].pc \in {"validate", "createOrder", "createOrderItems",
                      "updateOrderStatus", "updateProdStatus", "createEvent"}
    /\ Respond(r, 400, "Failed to create order")
    /\ UNCHANGED <<productTable, orders, orderItems, productDateEvents, statusWrites>>

StepServer(r, In) ==
        \/ Receive(r, In)
        \/ ValidateAvailable(r)
        \/ createOrder(r)
        \/ createOrderItems(r)
        \/ updateProductOrderStatus(r)
        \/ updateProductProdStatus(r)
        \/ createProductDateEvent(r)
        \/ StorageThrows(r)

\* the clock at its first instant, generateOrderId not called yet
InitClock == now = 1 /\ idCalls = <<>>

\* the clients table before the form is opened, in id order
InitClients == clients = [k \in 1..Cardinality(Clients) |-> k] /\ creating = 0 /\ created = 0

InitServer == BaseServer /\ InitComposer /\ InitClock /\ InitClients /\ InitHistory

\* requests handled concurrently: the handlers interleave at every await
NextServer == (\E r \in Reqs : StepServer(r, Bodies(r))) /\ UNCHANGED <<composerVars, clockVars, clientVars, historyVars>>

SpecServer == InitServer /\ [][NextServer]_vars

\* no handler is between its entry and its response
Quiet == \A q \in Reqs : req[q].pc \in {"idle", "done"}

\* requests handled one after the other: a request arrives when no other is in progress
NextServerSeq ==
    /\ \E r \in Reqs : (req[r].pc = "idle" => Quiet) /\ StepServer(r, Bodies(r))
    /\ UNCHANGED <<composerVars, clockVars, clientVars, historyVars>>

SpecServerSeq == InitServer /\ [][NextServerSeq]_vars

\* requests handled one after the other, whose bodies may repeat an orderId
NextOrders ==
    /\ \E r \in Reqs : (req[r].pc = "idle" => Quiet) /\ StepServer(r, PricedBodies(r))
    /\ UNCHANGED <<composerVars, clockVars, clientVars, historyVars>>

SpecOrders == InitServer /\ [][NextOrders]_vars

TypeOKServer ==
    /\ \A r \in Reqs : req[r].pc \in {"idle", "validate", "createOrder", "createOrderItems",
                                      "updateOrderStatus", "updateProdStatus", "createEvent", "done"}
    /\ \A p \in Products : productTable[p].orderStatus \in {"INVENTORY"} \cup OrderTypes

\* ------------------------------------------------- effects of a submission
OrderOf(r) == {o \in orders : o.rid = r}
ItemsOf(r) == {it \in orderItems : it.rid = r}
EventsOf(r) == {e \in productDateEvents : e.rid = r}
WritesOf(r) == {w \in statusWrites : w[1] = r}

NoEffects(r) == OrderOf(r) = {} /\ ItemsOf(r) = {} /\ EventsOf(r) = {} /\ WritesOf(r) = {}

AllEffects(r) ==
    /\ OrderOf(r) # {}
    /\ \A o \in OrderOf(r) : \A k \in 1..Len(o.adsIds) :
         /\ \E it \in ItemsOf(r) : it.line = k /\ it.adsId = o.adsIds[k]
         /\ <<r, o.adsIds[k], "orderStatus">> \in statusWrites
         /\ <<r, o.adsIds[k], "prodStatus">> \in statusWrites
         /\ \E e \in EventsOf(r) : e.line = k /\ e.adsId = o.adsIds[k]

Succeeded(r) == req[r].pc = "done" /\ req[r].status = 201

\* C1: once a submission has finished (201 or 400), either its Order row, one
\* OrderItem row per product, every status flip and every history event exist,
\* or none of them does.
C1_AllOrNothing ==
    \A r \in Reqs : req[r].pc = "done" => (AllEffects(r) \/ NoEffects(r))

\* C2: two submissions that contain the same product never both succeed.
C2_AtMostOneClaims ==
    \A r1 \in Reqs, r2 \in Reqs :
        (r1 # r2 /\ Succeeded(r1) /\ Succeeded(r2)) =>
            \A o1 \in OrderOf(r1), o2 \in OrderOf(r2) : Range(o1.adsIds) \cap Range(o2.adsIds) = {}

\* C3: a submission that contains a product which is not in INVENTORY when the
\* server handles it never creates an Order row, an OrderItem row, a status
\* change or an event, and finishes with an error (400), whatever the position
\* of that product in the list; a submission refused as "not available" has
\* written nothing.
C3_UnavailableFails ==
    \A r \in Reqs :
        /\ req[r].unavail > 0 => (NoEffects(r) /\ req[r].pc \in {"validate", "done"}
                                   /\ (req[r].pc = "done" => req[r].status = 400))
        /\ req[r].message = "not available" => (NoEffects(r) /\ req[r].status = 400)

\* C3 witness: a submission whose second product was already taken has been refused.
C3_Witness ==
    \E r \in Reqs : req[r].pc = "done" /\ req[r].unavail = 2 /\ req[r].message = "not available"

\* C4: every product appears in the product list of at most one persisted order.
C4_OneOrderPerProduct ==
    \A p \in Products : Cardinality({o \in orders : p \in Range(o.adsIds)}) <= 1

\* C5: after a successful submission every product of the order carries the
\* order's type as orderStatus, leased/sold as prodStatus, and exactly one
\* history event of that submission.
C5_AfterSuccess ==
    \A r \in Reqs : Succeeded(r) =>
        \A o \in OrderOf(r) : \A p \in Range(o.adsIds) :
            /\ productTable[p].orderStatus = o.orderType
            /\ productTable[p].prodStatus = StatusFor(o.orderType)
            /\ Cardinality({e \in EventsOf(r) : e.adsId = p}) = 1

\* ============================================================ OrderFormV2
\* selectedProducts.reduce((sum, product) => sum + product.price, 0)
RECURSIVE subtotalOf(_)
subtotalOf(lines) ==
    IF Len(lines) = 0 THEN 0
    ELSE subtotalOf(SubSeq(lines, 1, Len(lines) - 1)) + lines[Len(lines)].price

\* (mutation of discountAmountOf: the percentage divided by 10 instead of 100)
discountAmountOf_PerTen(sub, d) == sub * d * 10

\* subtotal * (discountPercentage / 100), in hundredths
discountAmountOf(sub, d) == sub * d

\* (mutation of totalPaymentOf: the deposit added whatever the order type)
totalPaymentOf_AlwaysDeposit(sub, disc100, t, dep) == sub * 100 - disc100 + dep * 100

\* subtotal - discountAmount + (orderType === 'RENT' ? securityDeposit : 0), in hundredths
totalPaymentOf(sub, disc100, t, dep) == sub * 100 - disc100 + (IF t = "RENT" THEN dep * 100 ELSE 0)

\* the useMemo values of the current render
subtotal == subtotalOf(renderedProducts)
discountAmount == discountAmountOf(subtotal, discountPercentage)
totalPayment == totalPaymentOf(subtotal, discountAmount, orderType, securityDeposit)

\* ------------------------------------------------------- generateOrderId
\* (mutation of padStart: pads to one character less)
RECURSIVE padStart_OneShort(_, _, _)
padStart_OneShort(str, n, c) == IF Len(str) >= n - 1 THEN str ELSE padStart_OneShort(<<c>> \o str, n, c)

\* String.prototype.padStart(n, c): a string already n long or longer is returned as it is
RECURSIVE padStart(_, _, _)
padStart(str, n, c) == IF Len(str) >= n THEN str ELSE padStart(<<c>> \o str, n, c)

\* Date.prototype.toISOString() of an instant with a four-digit year: YYYY-MM-DDTHH:mm:ss.sssZ
toISOString(t) ==
    padStart(toString(t.year), 4, "0") \o <<"-">> \o padStart(toString(t.month), 2, "0")
      \o <<"-">> \o padStart(toString(t.day), 2, "0") \o <<"T">>
      \o padStart(toString(t.hour), 2, "0") \o <<":", "0", "0", ":", "0", "0", ".", "0", "0", "0", "Z">>

\* str.replace(/-/g, '')
RECURSIVE removeDashes(_)
removeDashes(str) ==
    IF Len(str) = 0 THEN <<>>
    ELSE IF Head(str) = "-" THEN removeDashes(Tail(str))
    ELSE <<Head(str)>> \o removeDashes(Tail(str))

\* generateOrderId(customerId) called at instant t
generateOrderId(customerId, t) ==
    LET dateStr == removeDashes(SubSeq(toISOString(t), 1, 10))
    IN <<"O", "R", "D">> \o padStart(toString(customerId), 6, "0") \o <<"_">> \o dateStr

\* (mutation of Validate: the prices are not tested)
Validate_PricesUnchecked(c, lines, cd, d, t, dep) ==
    IF c = 0 THEN "Customer required"
    ELSE IF Len(lines) = 0 THEN "Products required"
    ELSE IF cd = "" THEN "Contract date required"
    ELSE IF d < 0 \/ d > 100 THEN "Invalid discount"
    ELSE IF t = "PURCHASE" /\ subtotalOf(lines) = 0 THEN "Invalid total"
    ELSE IF t = "PURCHASE"
            /\ totalPaymentOf(subtotalOf(lines), discountAmountOf(subtotalOf(lines), d), t, dep) < 0
         THEN "Invalid payment amount"
    ELSE IF t = "RENT" /\ dep < 0 THEN "Invalid security deposit"
    ELSE "ok"

\* (mutation of Validate: the upper bound of the discount is not tested)
Validate_NoUpperBound(c, lines, cd, d, t, dep) ==
    IF c = 0 THEN "Customer required"
    ELSE IF Len(lines) = 0 THEN "Products required"
    ELSE IF \E k \in 1..Len(lines) : lines[k].price <= 0 THEN "Invalid prices"
    ELSE IF cd = "" THEN "Contract date required"
    ELSE IF d < 0 THEN "Invalid discount"
    ELSE IF t = "PURCHASE" /\ subtotalOf(lines) = 0 THEN "Invalid total"
    ELSE IF t = "RENT" /\ dep < 0 THEN "Invalid security deposit"
    ELSE "ok"

\* (mutation of Validate: the contract date is tested before the prices)
Validate_DateFirst(c, lines, cd, d, t, dep) ==
    IF c = 0 THEN "Customer required"
    ELSE IF Len(lines) = 0 THEN "Products required"
    ELSE IF cd = "" THEN "Contract date required"
    ELSE IF \E k \in 1..Len(lines) : lines[k].price <= 0 THEN "Invalid prices"
    ELSE IF d < 0 \/ d > 100 THEN "Invalid discount"
    ELSE IF t = "PURCHASE" /\ subtotalOf(lines) = 0 THEN "Invalid total"
    ELSE IF t = "PURCHASE"
            /\ totalPaymentOf(subtotalOf(lines), discountAmountOf(subtotalOf(lines), d), t, dep) < 0
         THEN "Invalid payment amount"
    ELSE IF t = "RENT" /\ dep < 0 THEN "Invalid security deposit"
    ELSE "ok"

\* the validation cascade of handleSubmit: the title of the toast it raises, "ok" when it
\* reaches createOrderMutation.mutate
Validate(c, lines, cd, d, t, dep) ==
    IF c = 0 THEN "Customer required"
    ELSE IF Len(lines) = 0 THEN "Products required"
    ELSE IF \E k \in 1..Len(lines) : lines[k].price <= 0 THEN "Invalid prices"
    ELSE IF cd = "" THEN "Contract date required"
    ELSE IF d < 0 \/ d > 100 THEN "Invalid discount"
    ELSE IF t = "PURCHASE" /\ subtotalOf(lines) = 0 THEN "Invalid total"
    ELSE IF t = "PURCHASE"
            /\ totalPaymentOf(subtotalOf(lines), discountAmountOf(subtotalOf(lines), d), t, dep) < 0
         THEN "Invalid payment amount"
    ELSE IF t = "RENT" /\ dep < 0 THEN "Invalid security deposit"
    ELSE "ok"

\* new Date(contractDate).toISOString() of a date input value
ISODate(cd) == <<cd, "T00:00:00.000Z">>

\* (mutation of orderDataOf: the deposit field is sent as it is)
orderDataOf_KeepsDeposit(c, lines, cd, d, t, dep, at) ==
    [customerId |-> c,
     orderId |-> generateOrderId(c, at),
     orderType |-> t,
     products |-> [k \in 1..Len(lines) |->
                     [adsId |-> lines[k].adsId, price |-> toString(lines[k].price)]],
     contractDate |-> ISODate(cd),
     discountPercentage |-> d,
     securityDeposit |-> dep]

\* the orderData object handleSubmit builds
orderDataOf(c, lines, cd, d, t, dep, at) ==
    [customerId |-> c,
     orderId |-> generateOrderId(c, at),
     orderType |-> t,
     products |-> [k \in 1..Len(lines) |->
                     [adsId |-> lines[k].adsId, price |-> toString(lines[k].price)]],
     contractDate |-> ISODate(cd),
     discountPercentage |-> d,
     securityDeposit |-> IF t = "RENT" THEN dep ELSE 0]

\* a handler that sends no request, receives no answer and describes no toast
Quietly == orderData' = NoRequest /\ response' = NoResponse /\ toastDescription' = "none"

\* handleSubmit, on the values of the render it was created in
handleSubmit ==
    /\ formOpen
    /\ submits < MaxSubmits
    /\ submits' = submits + 1
    /\ LET v == Validate(selectedCustomer, renderedProducts, contractDate,
                         discountPercentage, orderType, securityDeposit) IN
         IF v = "ok"
         THEN /\ mutationStatus' = "pending"
              /\ orderData' = orderDataOf(selectedCustomer, renderedProducts, contractDate,
                                          discountPercentage, orderType, securityDeposit,
                                          Instants[now])
              /\ posts' = posts + 1
              /\ toast' = "none"
         ELSE /\ toast' = v
              /\ orderData' = NoRequest
              /\ UNCHANGED <<mutationStatus, posts>>
    /\ response' = NoResponse
    /\ toastDescription' = "none"
    /\ UNCHANGED <<draftVars, formOpen>>

\* (mutation of CreateOrderDisabled: isPending is not tested)
CreateOrderDisabled_NotPending ==
    \/ selectedCustomer = 0
    \/ Len(renderedProducts) = 0
    \/ contractDate = ""

\* disabled attribute of the "Create Order" button
CreateOrderDisabled ==
    \/ mutationStatus = "pending"
    \/ selectedCustomer = 0
    \/ Len(renderedProducts) = 0
    \/ contractDate = ""

\* click on "Create Order"
ClickCreateOrder == ~CreateOrderDisabled /\ handleSubmit

\* what fetch("/api/orders") can return when the order is not created: the 400
\* answers of the handler (message, and error in its catch), an error answer
\* without a message, a rejected fetch; reason is what the server or the transport
\* says went wrong
FailureResponses ==
    {[kind |-> "http", message |-> "Products array is required",
      error |-> "undefined", reason |-> "Products array is required"],
     [kind |-> "http", message |-> "Product ADS1 is not available",
      error |-> "undefined", reason |-> "Product ADS1 is not available"],
     [kind |-> "http", message |-> "Failed to create order",
      error |-> "storage error", reason |-> "storage error"],
     [kind |-> "http", message |-> "undefined",
      error |-> "undefined", reason |-> "undefined"],
     [kind |-> "network", message |-> "undefined",
      error |-> "undefined", reason |-> "Failed to fetch"]}

\* the message of the Error the mutationFn rejects with: the TypeError of fetch, or
\* new Error(error.message || "Failed to create order")
ErrorMessage(resp) ==
    IF resp.kind = "network" THEN resp.reason
    ELSE IF resp.message # "undefined" THEN resp.message
    ELSE "Failed to create order"

\* (mutation of MutationSucceeds: onSuccess() is not called)
MutationSucceeds_StaysOpen ==
    /\ mutationStatus = "pending"
    /\ mutationStatus' = "success"
    /\ orderData' = NoRequest
    /\ response' = [kind |-> "http", message |-> "undefined",
                    error |-> "undefined", reason |-> "created"]
    /\ toast' = "Order created successfully"
    /\ toastDescription' = "Order has been created"
    /\ UNCHANGED <<draftVars, formOpen, submits, posts>>

\* createOrderMutation.onSuccess: toast, onSuccess() closes the dialog
MutationSucceeds ==
    /\ mutationStatus = "pending"
    /\ mutationStatus' = "success"
    /\ orderData' = NoRequest
    /\ response' = [kind |-> "http", message |-> "undefined",
                    error |-> "undefined", reason |-> "created"]
    /\ toast' = "Order created successfully"
    /\ toastDescription' = "Order has been created"
    /\ formOpen' = FALSE
    /\ UNCHANGED <<draftVars, submits, posts>>

\* (mutation of MutationFails: the product lines are cleared)
MutationFails_ClearsLines ==
    /\ mutationStatus = "pending"
    /\ \E resp \in FailureResponses :
         /\ response' = resp
         /\ toastDescription' = ErrorMessage(resp)
    /\ mutationStatus' = "error"
    /\ orderData' = NoRequest
    /\ toast' = "Failed to create order"
    /\ selectedProducts' = <<>>
    /\ UNCHANGED <<customerType, selectedCustomer, orderType, contractDate, discountPercentage,
                   securityDeposit, formOpen, submits, posts>>

\* (mutation of MutationFails: the request is sent again)
MutationFails_Retries ==
    /\ mutationStatus = "pending"
    /\ \E resp \in FailureResponses :
         /\ response' = resp
         /\ toastDescription' = ErrorMessage(resp)
    /\ mutationStatus' = "pending"
    /\ orderData' = orderDataOf(selectedCustomer, renderedProducts, contractDate,
                                discountPercentage, orderType, securityDeposit, Instants[now])
    /\ toast' = "Failed to create order"
    /\ posts' = posts + 1
    /\ UNCHANGED <<draftVars, formOpen, submits>>

\* createOrderMutation.onError: response not ok or fetch rejected
MutationFails ==
    /\ mutationStatus = "pending"
    /\ \E resp \in FailureResponses :
         /\ response' = resp
         /\ toastDescription' = ErrorMessage(resp)
    /\ mutationStatus' = "error"
    /\ orderData' = NoRequest
    /\ toast' = "Failed to create order"
    /\ UNCHANGED <<draftVars, formOpen, submits, posts>>

\* "New Customer" / "Existing Customer" buttons
ChooseCustomerType(ct) ==
    /\ formOpen /\ selectedCustomer = 0 /\ customerType = "null"
    /\ customerType' = ct
    /\ toast' = "none"
    /\ UNCHANGED <<selectedCustomer, orderType, selectedProducts, contractDate,
                   discountPercentage, securityDeposit, mutationStatus, formOpen, submits, posts>>

\* "Back" in the customer search or the new customer form
BackToCustomerType ==
    /\ formOpen /\ selectedCustomer = 0 /\ customerType # "null"
    /\ customerType' = "null"
    /\ toast' = "none"
    /\ UNCHANGED <<selectedCustomer, orderType, selectedProducts, contractDate,
                   discountPercentage, securityDeposit, mutationStatus, formOpen, submits, posts>>

\* click on a client of the search result
SelectCustomer(c) ==
    /\ formOpen /\ selectedCustomer = 0 /\ customerType = "existing"
    /\ selectedCustomer' = c
    /\ customerType' = "null"
    /\ toast' = "none"
    /\ UNCHANGED <<orderType, selectedProducts, contractDate,
                   discountPercentage, securityDeposit, mutationStatus, formOpen, submits, posts>>

\* (mutation of ChangeCustomer: the customer search is opened at once)
ChangeCustomer_ToSearch ==
    /\ formOpen /\ selectedCustomer # 0
    /\ selectedCustomer' = 0
    /\ customerType' = "existing"
    /\ toast' = "none"
    /\ UNCHANGED <<orderType, selectedProducts, contractDate,
                   discountPercentage, securityDeposit, mutationStatus, formOpen, submits, posts>>

\* "Change" button of the selected customer
ChangeCustomer ==
    /\ formOpen /\ selectedCustomer # 0
    /\ selectedCustomer' = 0
    /\ customerType' = "null"
    /\ toast' = "none"
    /\ UNCHANGED <<orderType, selectedProducts, contractDate,
                   discountPercentage, securityDeposit, mutationStatus, formOpen, submits, posts>>

\* order type radio group (step 2, shown once a customer is selected)
setOrderType(t) ==
    /\ formOpen /\ selectedCustomer # 0
    /\ orderType' = t
    /\ toast' = "none"
    /\ UNCHANGED <<customerType, selectedCustomer, selectedProducts, contractDate,
                   discountPercentage, securityDeposit, mutationStatus, formOpen, submits, posts>>

\* some line of the list has this adsId
HasLine(lines, a) == \E k \in 1..Len(lines) : lines[k].adsId = a

\* (mutation of addProduct's duplicate test: never finds the product)
AlreadyAdded_Never(lines, a) == FALSE

\* selectedProducts.find(p => p.adsId === product.adsId), on the list the handler captured
AlreadyAdded(lines, a) == HasLine(lines, a)

\* addProduct(product): the test reads the captured list, the updater appends to prev
addProduct(a) ==
    /\ formOpen /\ selectedCustomer # 0
    /\ IF AlreadyAdded(renderedProducts, a)
       THEN toast' = "Product already added" /\ UNCHANGED selectedProducts
       ELSE /\ Len(selectedProducts) < MaxLines
            /\ selectedProducts' = Append(selectedProducts, [adsId |-> a, price |-> CostPrice[a]])
            /\ toast' = "none"
    /\ UNCHANGED <<customerType, selectedCustomer, orderType, contractDate,
                   discountPercentage, securityDeposit, mutationStatus, formOpen, submits, posts>>

\* prev.filter(p => p.adsId !== adsId)
RECURSIVE FilterOut(_, _)
FilterOut(lines, a) ==
    IF Len(lines) = 0 THEN <<>>
    ELSE IF Head(lines).adsId = a THEN FilterOut(Tail(lines), a)
    ELSE <<Head(lines)>> \o FilterOut(Tail(lines), a)

\* removeProduct(adsId): trash button of a rendered row
removeProduct(a) ==
    /\ formOpen /\ selectedCustomer # 0
    /\ HasLine(renderedProducts, a)
    /\ selectedProducts' = FilterOut(selectedProducts, a)
    /\ toast' = "none"
    /\ UNCHANGED <<customerType, selectedCustomer, orderType, contractDate,
                   discountPercentage, securityDeposit, mutationStatus, formOpen, submits, posts>>

\* updateProductPrice(adsId, price): price input of a rendered row
updateProductPrice(a, price) ==
    /\ formOpen /\ selectedCustomer # 0
    /\ HasLine(renderedProducts, a)
    /\ selectedProducts' = [k \in 1..Len(selectedProducts) |->
                              IF selectedProducts[k].adsId = a
                              THEN [selectedProducts[k] EXCEPT !.price = price]
                              ELSE selectedProducts[k]]
    /\ toast' = "none"
    /\ UNCHANGED <<customerType, selectedCustomer, orderType, contractDate,
                   discountPercentage, securityDeposit, mutationStatus, formOpen, submits, posts>>

\* (mutation of DetailsShown: the product list is not tested)
DetailsShown_CustomerOnly == selectedCustomer # 0

\* step 4 (order details) is rendered
DetailsShown == selectedCustomer # 0 /\ Len(renderedProducts) > 0

\* contract date input
setContractDate(v) ==
    /\ formOpen /\ DetailsShown
    /\ contractDate' = v
    /\ toast' = "none"
    /\ UNCHANGED <<customerType, selectedCustomer, orderType, selectedProducts,
                   discountPercentage, securityDeposit, mutationStatus, formOpen, submits, posts>>

\* discount input: parseFloat(e.target.value) || 0
setDiscountPercentage(v) ==
    /\ formOpen /\ DetailsShown
    /\ discountPercentage' = v
    /\ toast' = "none"
    /\ UNCHANGED <<customerType, selectedCustomer, orderType, selectedProducts,
                   contractDate, securityDeposit, mutationStatus, formOpen, submits, posts>>

\* security deposit input, rendered for RENT only
setSecurityDeposit(v) ==
    /\ formOpen /\ DetailsShown /\ orderType = "RENT"
    /\ securityDeposit' = v
    /\ toast' = "none"
    /\ UNCHANGED <<customerType, selectedCustomer, orderType, selectedProducts,
                   contractDate, discountPercentage, mutationStatus, formOpen, submits, posts>>

\* ClientForm in the New Customer step, submitted: POST /api/clients inserts the
\* client; saveClientMutation.onSuccess raises its toast and calls onSuccess, which
\* is handleCustomerCreated up to its await
saveClient ==
    /\ formOpen /\ selectedCustomer = 0 /\ customerType = "new"
    /\ Len(clients) < Cardinality(Clients) + MaxNewClients
    /\ clients' = Append(clients, Len(clients) + 1)
    /\ created' = Len(clients) + 1
    /\ creating' = creating + 1
    /\ toast' = "Success"
    /\ UNCHANGED <<draftVars, mutationStatus, formOpen, submits, posts>>

\* (mutation of saveClientFails: the client is inserted although the call fails)
saveClientFails_Persists ==
    /\ formOpen /\ selectedCustomer = 0 /\ customerType = "new"
    /\ Len(clients) < Cardinality(Clients) + MaxNewClients
    /\ clients' = Append(clients, Len(clients) + 1)
    /\ toast' = "Error"
    /\ UNCHANGED <<draftVars, mutationStatus, formOpen, submits, posts, creating, created>>

\* ClientForm submitted and POST /api/clients fails: saveClientMutation.onError
saveClientFails ==
    /\ formOpen /\ selectedCustomer = 0 /\ customerType = "new"
    /\ toast' = "Error"
    /\ UNCHANGED <<draftVars, mutationStatus, formOpen, submits, posts, clientVars>>

\* clients[clients.length - 1] of the refetched list
latestClient(list) == list[Len(list)]

\* handleCustomerCreated after await invalidateQueries: the refetched list is read,
\* its last client selected, the form closed; the setters do nothing once the dialog
\* has closed and the component is unmounted
handleCustomerCreated ==
    /\ creating > 0
    /\ creating' = creating - 1
    /\ IF formOpen
       THEN /\ selectedCustomer' = IF Len(clients) > 0 THEN latestClient(clients)
                                   ELSE selectedCustomer
            /\ customerType' = "null"
       ELSE UNCHANGED <<selectedCustomer, customerType>>
    /\ toast' = "Customer created"
    /\ UNCHANGED <<orderType, selectedProducts, contractDate, discountPercentage,
                   securityDeposit, mutationStatus, formOpen, submits, posts, clients, created>>

\* "Cancel" button: onCancel() closes the dialog
Cancel ==
    /\ formOpen
    /\ formOpen' = FALSE
    /\ toast' = "none"
    /\ Quietly
    /\ UNCHANGED <<draftVars, mutationStatus, submits, posts>>

\* React renders the component again: the handlers capture the new list
Render == renderedProducts' = selectedProducts'

\* -------------------------------------------------------------- SpecComposer
\* every event handler runs to completion and the component re-renders
DraftStep ==
    \/ \E ct \in {"new", "existing"} : ChooseCustomerType(ct)
    \/ BackToCustomerType
    \/ \E c \in Range(clients) : SelectCustomer(c)
    \/ ChangeCustomer
    \/ \E t \in OrderTypes : setOrderType(t)
    \/ \E a \in Products : addProduct(a)
    \/ \E a \in Products : removeProduct(a)
    \/ \E a \in Products, price \in PriceInputs : updateProductPrice(a, price)
    \/ \E v \in DateInputs : setContractDate(v)
    \/ \E v \in DiscountInputs : setDiscountPercentage(v)
    \/ \E v \in DepositInputs : setSecurityDeposit(v)

StepComposer ==
    \/ DraftStep /\ Quietly
    \/ ClickCreateOrder
    \/ MutationSucceeds
    \/ MutationFails
    \/ Cancel

InitComposerSpec == BaseServer /\ InitComposer /\ InitClock /\ InitClients /\ InitHistory

NextComposer == StepComposer /\ Render /\ UNCHANGED <<serverVars, clockVars, clientVars, historyVars>>

SpecComposer == InitComposerSpec /\ [][NextComposer]_vars

\* ----------------------------------------------------------- SpecNewCustomer
\* the form with its inline ClientForm: the customer, order type and product
\* handlers, the submission, Cancel, and the New Customer step; the details inputs
\* stay at their initial values
StepNewCustomer ==
    \/ /\ \/ \E ct \in {"new", "existing"} : ChooseCustomerType(ct)
          \/ BackToCustomerType
          \/ \E c \in Range(clients) : SelectCustomer(c)
          \/ ChangeCustomer
          \/ \E t \in OrderTypes : setOrderType(t)
          \/ \E a \in Products : addProduct(a)
          \/ \E a \in Products : removeProduct(a)
       /\ Quietly
       /\ UNCHANGED clientVars
    \/ (ClickCreateOrder \/ MutationSucceeds \/ MutationFails \/ Cancel) /\ UNCHANGED clientVars
    \/ (saveClient \/ saveClientFails \/ handleCustomerCreated) /\ Quietly

NextNewCustomer == StepNewCustomer /\ Render /\ UNCHANGED <<serverVars, clockVars, historyVars>>

SpecNewCustomer == InitComposerSpec /\ [][NextNewCustomer]_vars

\* ------------------------------------------------------------- SpecSubmission
\* the request of a pending submission is answered or fails in transport: the
\* mutation calls onSuccess or onError
Answered ==
    /\ MutationSucceeds \/ MutationFails
    /\ Render
    /\ UNCHANGED <<serverVars, clockVars, clientVars, historyVars>>

\* the form of SpecNewCustomer, where every request sent is eventually answered
SpecSubmission == InitComposerSpec /\ [][NextNewCustomer]_vars /\ WF_vars(Answered)

\* ---------------------------------------------------------------- SpecClients
\* POST /api/clients of another user: the clients table gets a row this form did
\* not insert
otherClientCreated ==
    /\ Len(clients) < Cardinality(Clients) + MaxNewClients + MaxOtherClients
    /\ clients' = Append(clients, Len(clients) + 1)
    /\ UNCHANGED <<composerVars, creating, created>>

\* the form with its inline ClientForm while other users create clients
NextClients ==
    /\ (StepNewCustomer /\ Render) \/ otherClientCreated
    /\ UNCHANGED <<serverVars, clockVars, historyVars>>

SpecClients == InitComposerSpec /\ [][NextClients]_vars

\* ---------------------------------------------------------------- SpecStale
\* product handlers called again on the same render: the list they captured is the
\* one of the last render until React renders again
ProductListStep ==
    \/ \E a \in Products : addProduct(a)
    \/ \E a \in Products : removeProduct(a)
    \/ \E a \in Products, price \in PriceInputs : updateProductPrice(a, price)

Rerender ==
    /\ renderedProducts # selectedProducts
    /\ renderedProducts' = selectedProducts
    /\ UNCHANGED <<draftVars, mutationStatus, toast, formOpen, submits, posts>>

NextStale ==
    /\ Quietly
    /\ \/ ProductListStep /\ UNCHANGED renderedProducts
       \/ (\E c \in Range(clients) : SelectCustomer(c)) /\ UNCHANGED renderedProducts
       \/ (\E ct \in {"existing"} : ChooseCustomerType(ct)) /\ UNCHANGED renderedProducts
       \/ Rerender
    /\ UNCHANGED <<serverVars, clockVars, clientVars, historyVars>>

SpecStale == InitComposerSpec /\ [][NextStale]_vars

\* ----------------------------------------------------------------- SpecGate
\* handleSubmit as a function of the draft: every draft of the value sets
Lines(S) == [adsId : Products, price : S]

InitGate ==
    /\ BaseServer
    /\ customerType = "null"
    /\ selectedCustomer \in {0, 1}
    /\ orderType \in OrderTypes
    /\ selectedProducts \in SeqsUpTo(Lines(GatePrices), MaxLines)
    /\ contractDate \in DateInputs
    /\ discountPercentage \in GateDiscounts
    /\ securityDeposit \in GateDeposits
    /\ renderedProducts = selectedProducts
    /\ mutationStatus = "idle"
    /\ orderData = NoRequest
    /\ response = NoResponse
    /\ toastDescription = "none"
    /\ toast = "none"
    /\ formOpen = TRUE
    /\ submits = 0
    /\ posts = 0
    /\ InitClock
    /\ InitClients
    /\ InitHistory

NextGate ==
    /\ handleSubmit
    /\ Render
    /\ UNCHANGED <<serverVars, clockVars, clientVars, historyVars>>

SpecGate == InitGate /\ [][NextGate]_vars

\* --------------------------------------------------------------- SpecTotals
\* the form and the server together: the body the form has handed to fetch and the
\* server has not received yet
Posted == IF orderData = NoRequest THEN {} ELSE {orderData}

\* the answer of the server reaches the mutation: onSuccess for 201, onError
\* otherwise
Settle ==
    /\ posts \in Reqs /\ req[posts].pc = "done"
    /\ IF req[posts].status = 201 THEN MutationSucceeds ELSE MutationFails

\* a draft of the value sets is submitted with the Create Order button, the server
\* handles the request it receives, the form gets the answer
NextTotals ==
    \/ /\ posts \in Reqs => req[posts].pc # "idle"
       /\ ClickCreateOrder /\ Render
       /\ UNCHANGED <<serverVars, clockVars, clientVars, historyVars>>
    \/ /\ Settle /\ Render
       /\ UNCHANGED <<serverVars, clockVars, clientVars, historyVars>>
    \/ /\ \E r \in Reqs : (req[r].pc = "idle" => r = posts) /\ StepServer(r, Posted)
       /\ UNCHANGED <<composerVars, clockVars, clientVars, historyVars>>

SpecTotals == InitGate /\ [][NextTotals]_vars

\* -------------------------------------------------------------- SpecOrderId
\* generateOrderId as a function: any customer id of the value set, at any instant
InitOrderId ==
    /\ BaseServer
    /\ InitComposer
    /\ now \in 1..Len(Instants)
    /\ idCalls = <<>>
    /\ InitClients
    /\ InitHistory

\* one call of generateOrderId
CallGenerateOrderId ==
    /\ Len(idCalls) < MaxCalls
    /\ \E c \in IdInputs :
         idCalls' = Append(idCalls, [customerId |-> c, at |-> now,
                                     orderId |-> generateOrderId(c, Instants[now])])
    /\ UNCHANGED now

\* time passes
Tick ==
    /\ now < Len(Instants)
    /\ now' = now + 1
    /\ UNCHANGED idCalls

NextOrderId ==
    /\ CallGenerateOrderId \/ Tick
    /\ UNCHANGED <<serverVars, composerVars, clientVars, historyVars>>

SpecOrderId == InitOrderId /\ [][NextOrderId]_vars

\* -------------------------------------------------------------- SpecHistory
\* the fields getChangedFields compares, in its order
fieldsToCheck ==
    <<"brand", "model", "condition", "costPrice", "specifications",
      "prodId", "prodHealth", "prodStatus", "orderStatus", "productType",
      "lastAuditDate", "auditStatus", "maintenanceDate", "maintenanceStatus">>

\* fields of a product that getChangedFields does not compare
OtherFields == {"lastModifiedBy", "lastModifiedAt"}

ProductFields == Range(fieldsToCheck) \cup OtherFields

\* fields of a product that may hold null
NullableFields ==
    {"prodId", "lastAuditDate", "auditStatus", "maintenanceDate", "maintenanceStatus"}

\* values of a product field: null or present for a nullable field, one of two
\* values for the others
FieldValues(f) == IF f \in NullableFields THEN {"null", "A"} ELSE {"A", "B"}

\* productState of the CREATED snapshot: no audit and no maintenance yet
CreatedProduct ==
    [f \in ProductFields |->
        IF f \in {"lastAuditDate", "auditStatus", "maintenanceDate", "maintenanceStatus"}
        THEN "null" ELSE "A"]

\* what one update writes to a product: one field, or what an order writes
ProductUpdates ==
    {[fields |-> {f}, value |-> v] : f \in ProductFields, v \in {"null", "A", "B"}}
      \cup {[fields |-> {"orderStatus", "prodStatus", "lastModifiedAt"}, value |-> "B"]}

\* the audit trail with one more snapshot: append-only, in time order
appendSnapshot(trail, u) ==
    IF Len(trail) = 0
    THEN <<[productState |-> CreatedProduct, timestamp |-> 1, action |-> "CREATED"]>>
    ELSE Append(trail,
           [productState |-> [f \in ProductFields |->
                                 IF f \in u.fields THEN u.value
                                 ELSE trail[Len(trail)].productState[f]],
            timestamp |-> trail[Len(trail)].timestamp + 1,
            action |-> "UPDATED"])

\* (mutation of getChangedFields: oldValue and newValue exchanged)
RECURSIVE getChangedFields_Exchanged(_, _, _)
getChangedFields_Exchanged(current, previous, fields) ==
    IF Len(fields) = 0 THEN <<>>
    ELSE (IF current[Head(fields)] # previous[Head(fields)]
          THEN <<[field |-> Head(fields), oldValue |-> current[Head(fields)],
                  newValue |-> previous[Head(fields)]]>>
          ELSE <<>>) \o getChangedFields_Exchanged(current, previous, Tail(fields))

\* getChangedFields(current, previous) for a previous that is defined: the forEach
\* over fieldsToCheck (the third argument is what is left of it) pushes a change for
\* every field whose values are not strictly equal
RECURSIVE getChangedFields(_, _, _)
getChangedFields(current, previous, fields) ==
    IF Len(fields) = 0 THEN <<>>
    ELSE (IF current[Head(fields)] # previous[Head(fields)]
          THEN <<[field |-> Head(fields), oldValue |-> previous[Head(fields)],
                  newValue |-> current[Head(fields)]]>>
          ELSE <<>>) \o getChangedFields(current, previous, Tail(fields))

\* the undefined result of reading an array past its end
NoSnapshot == [action |-> "undefined"]

\* arr[index], indexes from 0
At(arr, index) == IF index + 1 \in 1..Len(arr) THEN arr[index + 1] ELSE NoSnapshot

\* the array with its elements in reverse order
Reversed(arr) == [k \in 1..Len(arr) |-> arr[Len(arr) + 1 - k]]

\* (mutation of sliceReverse: reverse() is called on the array itself)
sliceReverse_InPlace(arr) == [array |-> Reversed(arr), result |-> Reversed(arr)]

\* arr.slice().reverse(): slice() copies the array and reverse() reverses the copy
\* in place and returns it; array is what arr holds afterwards
sliceReverse(arr) == [array |-> arr, result |-> Reversed(arr)]

\* (mutation of TimelineRows: the diff is taken against the row rendered above)
TimelineRows_Above(trail) ==
    LET rows == sliceReverse(trail).result IN
      [k \in 1..Len(rows) |->
         LET index == k - 1
             previousSnapshot == At(sliceReverse(trail).result, index - 1)
         IN [snapshot |-> rows[k],
             changes |-> IF previousSnapshot # NoSnapshot
                         THEN getChangedFields(rows[k].productState,
                                               previousSnapshot.productState, fieldsToCheck)
                         ELSE <<>>]]

\* history.auditTrail.slice().reverse().map((snapshot, index) => ...): the rows of
\* the timeline with the changes each one shows
TimelineRows(trail) ==
    LET rows == sliceReverse(trail).result IN
      [k \in 1..Len(rows) |->
         LET index == k - 1
             previousSnapshot == At(sliceReverse(trail).result, index + 1)
         IN [snapshot |-> rows[k],
             changes |-> IF previousSnapshot # NoSnapshot
                         THEN getChangedFields(rows[k].productState,
                                               previousSnapshot.productState, fieldsToCheck)
                         ELSE <<>>]]

\* one render of the component: the rows, and what the calls leave in the array
RenderTimeline(trail) ==
    /\ timeline' = TimelineRows(trail)
    /\ auditTrail' = sliceReverse(trail).array

\* the query refetches (every 2 seconds, on focus, on Refresh) and the trail has a
\* new snapshot: the component renders the new data
Refetch ==
    /\ Len(auditTrail) < MaxTrail
    /\ \E u \in ProductUpdates :
         /\ \A f \in u.fields : u.value \in FieldValues(f)
         /\ RenderTimeline(appendSnapshot(auditTrail, u))
    /\ UNCHANGED expandedStates

\* toggleExpanded(index): the eye button of a row; the component renders again
toggleExpanded(index) ==
    /\ expandedStates' = IF index \in expandedStates THEN expandedStates \ {index}
                         ELSE expandedStates \cup {index}
    /\ RenderTimeline(auditTrail)

NextHistory ==
    /\ Refetch \/ \E index \in 0..(Len(timeline) - 1) : toggleExpanded(index)
    /\ UNCHANGED <<serverVars, composerVars, clockVars, clientVars>>

SpecHistory == InitServer /\ [][NextHistory]_vars

\* ------------------------------------------------------- composer claims
\* the sum of the line prices, written from the first line on
RECURSIVE SumPrices(_)
SumPrices(lines) == IF Len(lines) = 0 THEN 0 ELSE Head(lines).price + SumPrices(Tail(lines))

PricesOf(lines) == [k \in 1..Len(lines) |-> lines[k].price]

\* the total of the draft by the pricing rule, in hundredths
RuleTotal100 ==
    LET sub == SumPrices(renderedProducts) IN
      IF orderType = "RENT"
      THEN sub * 100 - sub * discountPercentage + securityDeposit * 100
      ELSE sub * 100 - sub * discountPercentage

\* the seven rules of the validation gate, on the draft the handler sees
Rule1 == selectedCustomer # 0
Rule2 == Len(renderedProducts) >= 1
Rule3 == \A k \in 1..Len(renderedProducts) : renderedProducts[k].price > 0
Rule4 == contractDate # ""
Rule5 == 0 <= discountPercentage /\ discountPercentage <= 100
Rule6a == orderType = "PURCHASE" => SumPrices(renderedProducts) # 0
Rule6b == orderType = "PURCHASE" => RuleTotal100 >= 0
Rule7 == orderType = "RENT" => securityDeposit >= 0

GateOK == Rule1 /\ Rule2 /\ Rule3 /\ Rule4 /\ Rule5 /\ Rule6a /\ Rule6b /\ Rule7

\* the reason of the first violated rule, in the order 1 to 7
FirstReason ==
    LET R == << <<Rule1, "Customer required">>, <<Rule2, "Products required">>,
                <<Rule3, "Invalid prices">>, <<Rule4, "Contract date required">>,
                <<Rule5, "Invalid discount">>, <<Rule6a, "Invalid total">>,
                <<Rule6b, "Invalid payment amount">>, <<Rule7, "Invalid security deposit">> >>
        V == {k \in 1..Len(R) : ~R[k][1]}
    IN R[CHOOSE k \in V : \A j \in V : k <= j][2]

\* C6: a handleSubmit call sends the order-create request only for a draft that
\* satisfies the seven gate conditions; for a draft that violates one of them the
\* call sends nothing.
C6_GateBlocksInvalid ==
    [][submits' # submits => ((posts' # posts) <=> GateOK)]_vars

\* C6 witness: a draft with a customer, a line and a date but a discount over
\* 100 has been submitted and no request was sent.
C6_Witness ==
    /\ submits > 0 /\ posts = 0
    /\ Rule1 /\ Rule2 /\ Rule3 /\ Rule4 /\ ~Rule5

\* C7: a rejected handleSubmit call raises the toast named after the first
\* violated rule, in the order 1 to 7.
C7_NamedReason ==
    [][(submits' # submits /\ ~GateOK) => toast' = FirstReason]_vars

\* C7 witness: a draft with a non-positive price, no contract date and a discount
\* out of range has been rejected as "Invalid prices".
C7_Witness ==
    /\ submits > 0 /\ toast = "Invalid prices"
    /\ ~Rule3 /\ ~Rule4 /\ ~Rule5

\* C8: the draft never holds two lines with the same adsId.
C8_NoDuplicateLines ==
    \A i \in 1..Len(selectedProducts), j \in 1..Len(selectedProducts) :
        i # j => selectedProducts[i].adsId # selectedProducts[j].adsId

\* C9: subtotal is the sum of the line prices, discountAmount is subtotal *
\* discountPercentage / 100, total is subtotal - discountAmount plus the deposit
\* for RENT only; lines 1000 and 500 give 1500, 150, 1350 as PURCHASE with
\* discount 10 and 3500 as RENT with discount 0 and deposit 2000.
C9_Totals ==
    /\ subtotal = SumPrices(renderedProducts)
    /\ discountAmount = SumPrices(renderedProducts) * discountPercentage
    /\ totalPayment = RuleTotal100
    /\ (PricesOf(renderedProducts) = <<1000, 500>> /\ discountPercentage = 10 /\ orderType = "PURCHASE")
          => (subtotal = 1500 /\ discountAmount = 15000 /\ totalPayment = 135000)
    /\ (PricesOf(renderedProducts) = <<1000, 500>> /\ discountPercentage = 0 /\ orderType = "RENT"
          /\ securityDeposit = 2000) => totalPayment = 350000

\* C9 witness: a PURCHASE draft with lines 1000 and 500 and discount 10 that still
\* holds the deposit 2000 entered while it was RENT.
C9_Witness ==
    /\ PricesOf(renderedProducts) = <<1000, 500>>
    /\ orderType = "PURCHASE" /\ discountPercentage = 10 /\ securityDeposit = 2000
    /\ totalPayment = 135000

\* C10: with non-negative line prices and a discount between 0 and 100 the
\* discount amount is subtotal * discount / 100 and the PURCHASE total is not
\* negative; a PURCHASE draft that passed the gate has a total >= 0.
C10_PurchaseTotalNonNegative ==
    /\ ((\A k \in 1..Len(renderedProducts) : renderedProducts[k].price >= 0) /\ Rule5) =>
          /\ discountAmount = SumPrices(renderedProducts) * discountPercentage
          /\ totalPaymentOf(subtotal, discountAmount, "PURCHASE", securityDeposit) >= 0
    /\ (posts > 0 /\ orderType = "PURCHASE") => totalPayment >= 0

\* C10 witness: a PURCHASE draft with discount 100 was accepted with total 0.
C10_Witness ==
    /\ posts > 0 /\ orderType = "PURCHASE" /\ discountPercentage = 100
    /\ subtotal > 0 /\ totalPayment = 0

\* ------------------------------------------------------- order identifier
\* digit k (from the left, of n) of a number, by division
DigitAt(c, k, n) == Chars((c \div (10 ^ (n - k))) % 10)

\* the identifier by its format: ORD, six digits, _, YYYYMMDD
FormatOrderId(c, t) ==
    <<"O", "R", "D">> \o [k \in 1..6 |-> DigitAt(c, k, 6)] \o <<"_">>
      \o [k \in 1..4 |-> DigitAt(t.year, k, 4)] \o [k \in 1..2 |-> DigitAt(t.month, k, 2)]
      \o [k \in 1..2 |-> DigitAt(t.day, k, 2)]

SameUTCDate(t, u) == t.year = u.year /\ t.month = u.month /\ t.day = u.day

\* C11: generateOrderId returns ORD, the customerId zero-padded to six digits, _
\* and the UTC date as YYYYMMDD, a string of length 18, for every customerId in
\* 0..999999; two calls with the same customerId on the same UTC date return the
\* same string.
C11_OrderIdFormat ==
    /\ \A k \in 1..Len(idCalls) :
         idCalls[k].customerId \in 0..999999 =>
            /\ idCalls[k].orderId = FormatOrderId(idCalls[k].customerId, Instants[idCalls[k].at])
            /\ Len(idCalls[k].orderId) = 18
    /\ \A j \in 1..Len(idCalls), k \in 1..Len(idCalls) :
         (idCalls[j].customerId = idCalls[k].customerId
            /\ SameUTCDate(Instants[idCalls[j].at], Instants[idCalls[k].at]))
         => idCalls[j].orderId = idCalls[k].orderId

\* C11 witness: customer 42 got the same 18-character identifier at 09h and at 23h
\* of 2026-01-15.
C11_Witness ==
    \E j \in 1..Len(idCalls), k \in 1..Len(idCalls) :
        /\ idCalls[j].customerId = 42 /\ idCalls[k].customerId = 42
        /\ idCalls[j].at = 1 /\ idCalls[k].at = 2
        /\ idCalls[k].orderId = <<"O", "R", "D", "0", "0", "0", "0", "4", "2", "_",
                                   "2", "0", "2", "6", "0", "1", "1", "5">>

C19_EffectOrder ==
    [][\A r \in Reqs :
         /\ ItemsOf(r)' # {} => OrderOf(r)' # {}
         /\ WritesOf(r)' # {} => ItemsOf(r)' # {}
         /\ \A e \in EventsOf(r)' : <<r, e.adsId, "prodStatus">> \in statusWrites'
         /\ \A p \in Products :
              (<<r, p, "orderStatus">> \in statusWrites' \ statusWrites) =>
                  \A q \in Reqs \ {r} : \A w \in WritesOf(q) : w[2] # p]_vars

\* C20: a successful submission has created exactly one OrderItem row per entry of
\* its products list; the row of line k carries that line's price as
\* rentalPricePerMonth when the order is RENT, and as sellingPrice with a null
\* rentalPricePerMonth otherwise.
C20_OrderItemRows ==
    [][\A r \in Reqs : (req[r].pc # "done" /\ Succeeded(r)') =>
         LET ps == req[r].products IN
           /\ Cardinality(ItemsOf(r)') = Len(ps)
           /\ \A k \in 1..Len(ps) : \E it \in ItemsOf(r)' :
                 /\ it.line = k /\ it.adsId = ps[k].adsId
                 /\ req[r].orderType = "RENT" => it.rentalPricePerMonth = ps[k].price
                 /\ req[r].orderType # "RENT" =>
                        (it.sellingPrice = ps[k].price /\ it.rentalPricePerMonth = "null")]_vars

\* C20 witness: a RENT order with a line at 1000 and a line at 500 has succeeded
\* with its two rows.
C20_Witness ==
    \E r \in Reqs :
        /\ Succeeded(r) /\ Cardinality(ItemsOf(r)) = 2
        /\ \A it \in ItemsOf(r) : it.rentalPricePerMonth # "null"
        /\ \E it \in ItemsOf(r) : it.line = 1 /\ it.rentalPricePerMonth = <<"1", "0", "0", "0">>
        /\ \E it \in ItemsOf(r) : it.line = 2 /\ it.rentalPricePerMonth = <<"5", "0", "0">>

\* ------------------------------------------------- submission and workflow
\* C13: the request built by handleSubmit carries securityDeposit 0 unless the
\* order type is RENT (then the value of the field), whatever the field holds, and
\* one {adsId, price} entry per draft line, in draft order, with the line's price.
C13_RequestBody ==
    [][orderData' # NoRequest =>
         /\ orderData'.orderType = orderType
         /\ orderData'.orderType # "RENT" => orderData'.securityDeposit = 0
         /\ orderData'.orderType = "RENT" => orderData'.securityDeposit = securityDeposit
         /\ Len(orderData'.products) = Len(selectedProducts)
         /\ \A k \in 1..Len(selectedProducts) :
               /\ orderData'.products[k].adsId = selectedProducts[k].adsId
               /\ parseFloat(orderData'.products[k].price) = selectedProducts[k].price]_vars

\* C13 witness: a PURCHASE request with two entries was sent with deposit 0 while
\* the deposit field holds the 2000 entered when the draft was RENT.
C13_Witness ==
    /\ orderData # NoRequest
    /\ orderData.orderType = "PURCHASE" /\ orderData.securityDeposit = 0
    /\ securityDeposit = 2000
    /\ Len(orderData.products) = 2

\* C14: the order type and the product list change only while a customer is
\* selected; the details inputs change, and a submission is made, only while a
\* customer is selected and the draft has at least one line.
C14_StepsLocked ==
    [][/\ (orderType' # orderType \/ selectedProducts' # selectedProducts) => selectedCustomer # 0
       /\ (contractDate' # contractDate \/ discountPercentage' # discountPercentage
             \/ securityDeposit' # securityDeposit \/ submits' # submits)
            => (selectedCustomer # 0 /\ Len(selectedProducts) > 0)]_vars

\* C14 witness: a discount was entered in the details step and the last line was
\* removed afterwards: the customer is selected, the draft has no line.
C14_Witness ==
    selectedCustomer # 0 /\ Len(selectedProducts) = 0 /\ discountPercentage = 10

\* C15: when the selected customer is dropped (Change), customerType is null as
\* well; while no customer is selected no request is sent.
C15_ChangeCustomer ==
    [][/\ (selectedCustomer # 0 /\ selectedCustomer' = 0) => customerType' = "null"
       /\ selectedCustomer = 0 => orderData' = NoRequest]_vars

\* C15 witness: Change was pressed on a draft with two lines and a discount: no
\* customer is selected, customerType is null, the lines are still there.
C15_Witness ==
    /\ selectedCustomer = 0 /\ customerType = "null"
    /\ Len(selectedProducts) = 2 /\ discountPercentage = 10

\* the persisted state before the form was opened
PersistedAsBefore ==
    /\ orders = {} /\ orderItems = {} /\ productDateEvents = {}
    /\ productTable = [p \in Products |-> [orderStatus |-> "INVENTORY", prodStatus |-> "available"]]

\* C16 (as stated): once the form was cancelled without a submission, the clients,
\* orders, order items and product statuses are those of before.
C16_CancelNoSideEffects ==
    (~formOpen /\ posts = 0) =>
        (PersistedAsBefore /\ clients = [k \in 1..Cardinality(Clients) |-> k])

\* C16 (amended): once the form was cancelled without a submission, the orders,
\* order items and product statuses are those of before; the clients table only
\* ever grows, by the client a successful save of the New Customer step inserts.
C16_CancelKeepsOrders ==
    [][/\ (~formOpen' /\ posts' = 0) => PersistedAsBefore'
       /\ clients' # clients =>
             /\ customerType = "new" /\ toast' = "Success"
             /\ Len(clients') = Len(clients) + 1
             /\ SubSeq(clients', 1, Len(clients)) = clients]_vars

\* C16 witness: the form was cancelled without a submission after a customer had
\* been saved in the New Customer step.
C16_Witness ==
    ~formOpen /\ posts = 0 /\ Len(clients) = Cardinality(Clients) + 1

\* C17: a request is sent only by a handleSubmit call, one per call; after a
\* failure the mutation stays failed and no request is sent until handleSubmit is
\* called again.
C17_NoAutoRetry ==
    [][/\ (orderData' # NoRequest \/ posts' # posts) =>
             (submits' = submits + 1 /\ posts' = posts + 1 /\ orderData' # NoRequest)
       /\ (mutationStatus = "error" /\ submits' = submits) =>
             (mutationStatus' = "error" /\ orderData' = NoRequest)]_vars

\* C17 witness: a first request failed and the user submitted again: the second
\* request is pending.
C17_Witness ==
    mutationStatus = "pending" /\ posts = 2 /\ submits = 2 /\ orderData # NoRequest

\* C18: every failed submission ends in the error state, with the toast "Failed
\* to create order" described by the failure reason the server or the transport
\* gave, and the form stays open.
C18_FailureSurfaced ==
    [][(response' # NoResponse /\ response'.reason # "created") =>
         /\ mutationStatus' = "error"
         /\ toast' = "Failed to create order"
         /\ formOpen' = formOpen
         /\ response'.reason # "undefined" => toastDescription' = response'.reason]_vars
\* ---------------------------------------------------------- history view
\* the snapshot recorded immediately before snapshot s, NoSnapshot for the first
EntryBefore(s) ==
    LET Earlier == {e \in Range(auditTrail) : e.timestamp < s.timestamp} IN
      IF Earlier = {} THEN NoSnapshot
      ELSE CHOOSE e \in Earlier : \A x \in Earlier : x.timestamp <= e.timestamp

\* C21: the timeline shows the trail in reverse order, newest first; the row of
\* the oldest snapshot has no changes, and the changes of every other row are
\* those between its snapshot and the snapshot recorded immediately before it.
C21_DiffAgainstPrevious ==
    /\ Len(timeline) = Len(auditTrail)
    /\ \A k \in 1..Len(timeline) :
         /\ timeline[k].snapshot = auditTrail[Len(auditTrail) + 1 - k]
         /\ LET s == timeline[k].snapshot IN
              IF EntryBefore(s) = NoSnapshot THEN timeline[k].changes = <<>>
              ELSE timeline[k].changes =
                     getChangedFields(s.productState, EntryBefore(s).productState, fieldsToCheck)

\* C21 witness: a trail of three snapshots whose newest row shows the audit status
\* set by the last update and whose middle row shows the model changed by the
\* update before it.
C21_Witness ==
    /\ Len(timeline) = 3
    /\ timeline[1].changes = <<[field |-> "auditStatus", oldValue |-> "null", newValue |-> "A"]>>
    /\ timeline[2].changes = <<[field |-> "model", oldValue |-> "A", newValue |-> "B"]>>
    /\ timeline[3].changes = <<>>

\* the tracked fields, by name
TrackedFields ==
    {"brand", "model", "condition", "costPrice", "specifications", "prodId", "prodHealth",
     "prodStatus", "orderStatus", "productType", "lastAuditDate", "auditStatus",
     "maintenanceDate", "maintenanceStatus"}

\* C22: the changes of a row name exactly the tracked fields (14 of them) whose
\* value in the row's snapshot differs from the value in the snapshot before it,
\* each once, with the earlier value as oldValue and the row's value as newValue.
C22_ChangedFields ==
    /\ Cardinality(TrackedFields) = 14
    /\ \A k \in 1..Len(timeline) :
         LET cur == timeline[k].snapshot.productState
             ch == timeline[k].changes
         IN EntryBefore(timeline[k].snapshot) # NoSnapshot =>
              LET prev == EntryBefore(timeline[k].snapshot).productState IN
                /\ Range(ch) = {[field |-> f, oldValue |-> prev[f], newValue |-> cur[f]] :
                                   f \in {g \in TrackedFields : cur[g] # prev[g]}}
                /\ Len(ch) = Cardinality(Range(ch))

\* C22 witness: a row whose snapshot differs from the one before it in two tracked
\* fields and one field that is not tracked shows the two, and a row shows a change
\* from a value to null.
C22_Witness ==
    /\ \E k \in 1..Len(timeline) :
         /\ Len(timeline[k].changes) = 2
         /\ EntryBefore(timeline[k].snapshot) # NoSnapshot
         /\ timeline[k].snapshot.productState["lastModifiedAt"]
               # EntryBefore(timeline[k].snapshot).productState["lastModifiedAt"]
    /\ \E k \in 1..Len(timeline) :
         \E c \in Range(timeline[k].changes) : c.oldValue = "A" /\ c.newValue = "null"

\* C23: a render of the same trail (after a row was expanded or collapsed) shows
\* the rows and changes the render before it showed, and leaves the trail as it
\* was.
C23_RenderIdempotent ==
    [][expandedStates' # expandedStates => (timeline' = timeline /\ auditTrail' = auditTrail)]_vars

\* C23 witness: the timeline of three snapshots was rendered again with a row
\* expanded and shows changes.
C23_Witness ==
    /\ expandedStates # {} /\ Len(timeline) = 3
    /\ timeline[1].changes # <<>>
\* C24: when handleCustomerCreated selects a customer after the New Customer form
\* succeeded, the customer it selects is the client that form created, also when
\* another user created a client in between.
C24_SelectsCreatedClient ==
    [][(creating' < creating /\ formOpen) => selectedCustomer' = created]_vars
\* ------------------------------------------------------ form and server
\* C25: every order row created from the form holds the number of draft lines as
\* requiredPieces and the same number as deliveredPieces.
C25_PiecesAsDisplayed ==
    \A o \in orders :
        /\ o.requiredPieces = Len(selectedProducts)
        /\ o.deliveredPieces = o.requiredPieces

\* C27: every order row created from the form holds the form's total as
\* totalPaymentReceived and the form's subtotal as quotedPrice.
C27_ServerTotalIsFormTotal ==
    \A o \in orders :
        /\ o.totalPaymentReceived = totalPayment
        /\ o.quotedPrice = subtotal

\* C27 witness: a PURCHASE order with lines 1000 and 500 and discount 10 was
\* persisted with total 1350 while the deposit field holds 2000, and the form was
\* told so.
C27_Witness ==
    /\ mutationStatus = "success"
    /\ securityDeposit = 2000 /\ discountPercentage = 10
    /\ \E o \in orders : o.orderType = "PURCHASE" /\ o.quotedPrice = 1500
                            /\ o.totalPaymentReceived = 135000
\* ------------------------------------------------------------ submission
\* C26: a pending submission eventually settles; it settles either as a success
\* (success toast, dialog closed) or as a failure (error toast, dialog left as it
\* is), and once settled it keeps its outcome until another request is sent.
C26_SubmissionSettles ==
    /\ (mutationStatus = "pending") ~> (mutationStatus \in {"success", "error"})
    /\ [][(mutationStatus = "pending" /\ mutationStatus' # "pending") =>
             \/ /\ mutationStatus' = "success" /\ toast' = "Order created successfully"
                /\ ~formOpen'
             \/ /\ mutationStatus' = "error" /\ toast' = "Failed to create order"
                /\ formOpen' = formOpen]_vars
    /\ [][(mutationStatus \in {"success", "error"} /\ posts' = posts) =>
             mutationStatus' = mutationStatus]_vars

\* C26 witness: the first submission has failed and the form is still open.
C26_Witness ==
    mutationStatus = "error" /\ toast = "Failed to create order" /\ formOpen /\ posts = 1
\* C28: handleSubmit never reports "Invalid total" nor "Invalid payment amount": a
\* draft with at least one line, every price > 0 and a discount between 0 and 100
\* has a subtotal > 0 and a PURCHASE total >= 0.
C28_PurchaseChecksUnreachable ==
    /\ toast \notin {"Invalid total", "Invalid payment amount"}
    /\ (Rule2 /\ Rule3 /\ Rule5) =>
          /\ subtotal > 0
          /\ totalPaymentOf(subtotal, discountAmount, "PURCHASE", securityDeposit) >= 0

\* C28 witness: a PURCHASE draft with discount 100 and 2000 in the deposit field
\* went through handleSubmit and was sent.
C28_Witness ==
    /\ posts > 0 /\ toast = "none"
    /\ orderType = "PURCHASE" /\ discountPercentage = 100 /\ securityDeposit = 2000

\* C29: a handleSubmit call that sends nothing, and the failure of a request, leave
\* the customer, the order type, the lines, the date, the discount and the deposit
\* as they were, and the dialog as it was.
C29_RejectionKeepsDraft ==
    [][((submits' # submits /\ posts' = posts)
          \/ (response' # NoResponse /\ response'.reason # "created"))
        => (UNCHANGED draftVars /\ formOpen' = formOpen)]_vars

\* C29 witness: the request of a RENT draft with two lines, discount 10 and deposit
\* 2000 has failed, and the draft is there.
C29_Witness ==
    /\ mutationStatus = "error" /\ toast = "Failed to create order"
    /\ Len(selectedProducts) = 2 /\ orderType = "RENT"
    /\ discountPercentage = 10 /\ securityDeposit = 2000

\* C30: a request is sent only while no request of the form is pending, one at a
\* time, and never after a request of the form has succeeded.
C30_OneRequestInFlight ==
    [][/\ posts' # posts =>
             (mutationStatus \notin {"pending", "success"} /\ posts' = posts + 1)
       /\ mutationStatus = "success" => (posts' = posts /\ orderData' = NoRequest)]_vars

\* C30 witness: the first request failed, the second one succeeded and the dialog
\* is closed.
C30_Witness ==
    mutationStatus = "success" /\ posts = 2 /\ ~formOpen
====
